---- MODULE Spec2Model ----
(***************************************************************************)
(* The agent execution engine of CodexOS                                   *)
(* (apps/backend/app/core/agent_engine.py): AgentPlanner.create_plan,      *)
(* AgentExecutor.execute_plan with its step loop and rollback, and         *)
(* AgentEngine.execute_flow / interrupt_flow.                               *)
(*                                                                         *)
(* The variables hold one call of execute_flow on one engine; a second     *)
(* call on the same engine is kept in peer and runs when the first gives   *)
(* way (SpecConc).  A coroutine runs                                        *)
(* without interruption between two points at which it really suspends;    *)
(* the only such point is the HTTP call of the trigger_agent tool, so that *)
(* is the only position at which interrupt_flow can be run by other code.  *)
(* asyncio.CancelledError derives from BaseException (the sources use      *)
(* syntax of Python 3.9), so "except Exception" does not catch it.         *)
(***************************************************************************)
EXTENDS Integers, Sequences, FiniteSets, TLC

\* ------------------------------------------------------------- bounds
MaxNodes == 3          \* nodes of a flow handed to the engine
PlanMaxNodes == 2      \* nodes of a flow handed to the planner alone
MaxEdges == 2          \* edges of a flow handed to the planner alone
EstimateSteps == 6     \* steps of a plan handed to the resource estimator
ConcNodes == 2         \* nodes of each flow of two concurrent executions

\* ------------------------------------------------------------- identifiers
\* Node ids come with the flow; step ids, plan ids and execution ids are uuid4
\* values generated afterwards, so they never equal a node id.  Each pool lists
\* the values uuid4 hands out for one purpose, in the order it hands them out.
NodeIds == <<"n1", "n2", "n3", "n4", "n5", "n6", "n7", "n8">>
StepIds == <<"s1", "s2", "s3", "s4", "s5", "s6", "s7", "s8">>
PlanIds == <<"p1", "p2">>
ExecutionIds == <<"x1", "x2">>

NodeType == {"entry", "exit", "llm", "tool", "condition", "loop", "parallel", "rollback"}
ExecutionStatus == {"planning", "executing", "completed", "failed", "interrupted", "rolling_back"}

\* ------------------------------------------------------------- helpers
Range(s) == {s[i] : i \in DOMAIN s}

\* Python's "sub in text" on strings: text has sub as a contiguous piece.
\* Operation names are kept as sequences of their underscore-separated words.
Contains(text, sub) ==
    \E k \in 0..(Len(text) - Len(sub)) : \A j \in 1..Len(sub) : text[k + j] = sub[j]

\* ------------------------------------------------------------- flows
Data(op, tool, agent) == [present |-> TRUE, operation |-> op, tool |-> tool, agent_id |-> agent]
\* "data": null in the node's JSON; node.get("data", {}) then yields None
NoData == [present |-> FALSE, operation |-> <<>>, tool |-> "", agent_id |-> FALSE]

NodeKinds ==
    { [type |-> "entry", data |-> Data(<<>>, "", FALSE)],
      [type |-> "exit", data |-> Data(<<>>, "", FALSE)],
      [type |-> "llm", data |-> Data(<<"api", "call">>, "", FALSE)],
      [type |-> "tool", data |-> Data(<<"database", "update">>, "db", FALSE)],
      [type |-> "tool", data |-> Data(<<"api", "call">>, "trigger_agent", TRUE)],
      [type |-> "tool", data |-> Data(<<>>, "trigger_agent", FALSE)],
      [type |-> "condition", data |-> Data(<<"payment">>, "", FALSE)],
      [type |-> "condition", data |-> NoData],
      [type |-> "custom_widget", data |-> Data(<<>>, "", FALSE)] }

PlanKinds ==
    { [type |-> "entry", data |-> Data(<<>>, "", FALSE)],
      [type |-> "llm", data |-> Data(<<"read">>, "", FALSE)],
      [type |-> "tool", data |-> Data(<<"s3", "file", "write", "backup">>, "db", FALSE)],
      [type |-> "parallel", data |-> Data(<<"api", "call">>, "", FALSE)],
      [type |-> "condition", data |-> Data(<<"payment">>, "", FALSE)],
      [type |-> "custom_widget", data |-> Data(<<>>, "", FALSE)] }

\* node kinds of the flows of two concurrent executions
ConcKinds ==
    { [type |-> "llm", data |-> Data(<<"api", "call">>, "", FALSE)],
      [type |-> "tool", data |-> Data(<<"database", "update">>, "db", FALSE)],
      [type |-> "tool", data |-> Data(<<"api", "call">>, "trigger_agent", TRUE)],
      [type |-> "custom_widget", data |-> Data(<<>>, "", FALSE)] }

\* node kinds of the plans handed to the resource estimator
EstimateKinds ==
    { [type |-> "entry", data |-> Data(<<>>, "", FALSE)],
      [type |-> "llm", data |-> Data(<<"read">>, "", FALSE)],
      [type |-> "tool", data |-> Data(<<"database", "update">>, "db", FALSE)] }

MkNodes(ks) == [i \in DOMAIN ks |-> [id |-> NodeIds[i], type |-> ks[i].type, data |-> ks[i].data]]
Edge(i, j) == [source |-> NodeIds[i], target |-> NodeIds[j]]
ChainEdges(n) == [i \in 1..(n - 1) |-> Edge(i, i + 1)]
EdgePairs(n) == {Edge(i, j) : i \in 1..n, j \in 1..n}

Flow(ks, es) == [nodes |-> MkNodes(ks), edges |-> es]

\* Edge lists of a flow handed to execute_flow: no edge, or the chain
\* n1 -> n2 -> ... over its n nodes.
EngineEdges(n) == {<<>>, ChainEdges(n)}

\* Edge lists of a flow handed to the planner alone: any list over its n nodes.
PlanEdges(n) == UNION { [1..m -> EdgePairs(n)] : m \in 0..MaxEdges }

\* ------------------------------------------------------------- planner
CriticalTypes == {"tool", "llm", "parallel"}
CriticalOperations ==
    { <<"file", "write">>, <<"database", "update">>, <<"api", "call">>, <<"payment">> }

\* variant: the operation decides alone, whatever the node type
is_rollback_point_any_type(node) ==
    \E op \in CriticalOperations : Contains(node.data.operation, op)

is_rollback_point(node) ==
    IF node.type \in CriticalTypes
    THEN \E op \in CriticalOperations : Contains(node.data.operation, op)
    ELSE FALSE

\* dependencies[target].append(source), one edge after the other
RECURSIVE build_dependencies_from(_, _)
build_dependencies_from(edges, dependencies) ==
    IF edges = <<>> THEN dependencies
    ELSE LET source == Head(edges).source
             target == Head(edges).target
             known == target \in DOMAIN dependencies
             next == [t \in DOMAIN dependencies \cup {target} |->
                        IF t = target
                        THEN Append(IF known THEN dependencies[t] ELSE <<>>, source)
                        ELSE dependencies[t]]
         IN build_dependencies_from(Tail(edges), next)

\* variant: dependencies[target] = [source], the last edge wins
RECURSIVE build_dependencies_overwrite_from(_, _)
build_dependencies_overwrite_from(edges, dependencies) ==
    IF edges = <<>> THEN dependencies
    ELSE LET source == Head(edges).source
             target == Head(edges).target
             next == [t \in DOMAIN dependencies \cup {target} |->
                        IF t = target THEN <<source>> ELSE dependencies[t]]
         IN build_dependencies_overwrite_from(Tail(edges), next)

build_dependencies_overwrite(nodes, edges) == build_dependencies_overwrite_from(edges, <<>>)

build_dependencies(nodes, edges) == build_dependencies_from(edges, <<>>)

Count(steps, type) == Cardinality({i \in DOMAIN steps : steps[i].node_type = type})
Min(a, b) == IF a < b THEN a ELSE b

\* variant: the number of concurrent steps is not capped
estimate_resources_uncapped(steps) ==
    [ estimated_cpu_time |-> 30 * Count(steps, "llm") + 10 * Count(steps, "tool"),
      estimated_memory_mb |-> 512 * Count(steps, "llm") + 256 * Count(steps, "tool"),
      estimated_disk_mb |-> 50 * Count(steps, "tool"),
      max_concurrent_steps |-> Len(steps) ]

estimate_resources(steps) ==
    [ estimated_cpu_time |-> 30 * Count(steps, "llm") + 10 * Count(steps, "tool"),
      estimated_memory_mb |-> 512 * Count(steps, "llm") + 256 * Count(steps, "tool"),
      estimated_disk_mb |-> 50 * Count(steps, "tool"),
      max_concurrent_steps |-> Min(5, Len(steps)) ]

ExecutionStep(step_id, node) ==
    [ step_id |-> step_id, node_id |-> node.id, node_type |-> node.type,
      input_data |-> node.data, output_data |-> "none", status |-> "planning",
      error |-> "none" ]

\* variant: every node type is accepted
PlanningNeverFails(flow_data) == FALSE

\* NodeType(node["type"]) raises ValueError on a value that is no member, and
\* data.get in _is_rollback_point raises on data None for a critical type.
PlanningFails(flow_data) ==
    \E i \in DOMAIN flow_data.nodes :
        \/ flow_data.nodes[i].type \notin NodeType
        \/ flow_data.nodes[i].type \in CriticalTypes /\ ~flow_data.nodes[i].data.present

\* variant: the k-th value of the pool, issued before or not
uuid4_repeating(pool, issued, k) == pool[k]
\* str(uuid.uuid4()): the k-th value of the pool that was not issued before
uuid4(pool, issued, k) == SelectSeq(pool, LAMBDA u : u \notin issued)[k]

create_plan(flow_data, issued) ==
    LET nodes == flow_data.nodes
        steps == [i \in DOMAIN nodes |-> ExecutionStep(uuid4(StepIds, issued, i), nodes[i])]
        points == SelectSeq([i \in DOMAIN nodes |-> i], LAMBDA i : is_rollback_point(nodes[i]))
    IN [ plan_id |-> uuid4(PlanIds, issued, 1),
         steps |-> steps,
         rollback_points |-> [k \in DOMAIN points |-> steps[points[k]].step_id],
         dependencies |-> build_dependencies(nodes, flow_data.edges),
         resource_requirements |-> estimate_resources(steps) ]

NoPlan ==
    [ plan_id |-> "", steps |-> <<>>, rollback_points |-> <<>>, dependencies |-> <<>>,
      resource_requirements |-> estimate_resources(<<>>) ]

\* ------------------------------------------------------------- state
VARIABLES
    flow,                 \* flow_data handed to execute_flow
    pc,                   \* position of the execute_flow coroutine
    plan,                 \* the ExecutionPlan; its steps are mutated in place
    idx,                  \* position of "for step in plan.steps"
    completed_steps,      \* locals of _execute_steps
    errors,
    rollbacks_performed,
    active_executions,    \* AgentExecutor.active_executions (its keys)
    rollback_hooks,       \* AgentExecutor.rollback_hooks (its keys)
    cancel_requested,     \* task.cancel() was called on the execution's task
    execution_id,         \* local of execute_plan, "" before line 212
    exc,                  \* exception travelling up inside execute_plan
    outcome,              \* what the caller of execute_flow got
    result,               \* <<ExecutionResult>> once one is built, else <<>>
    rollback_log,         \* history: calls of _rollback_step, in order
    hook_log,             \* history: RollbackHook.execute calls, in order
    peer                  \* the other execute_flow task of the event loop, not running

vars == << flow, pc, plan, idx, completed_steps, errors, rollbacks_performed,
           active_executions, rollback_hooks, cancel_requested, execution_id, exc,
           outcome, result, rollback_log, hook_log, peer >>

Start(flow_data) ==
    /\ flow = flow_data
    /\ pc = "start"
    /\ plan = NoPlan
    /\ idx = 0
    /\ completed_steps = 0
    /\ errors = <<>>
    /\ rollbacks_performed = 0
    /\ active_executions = {}
    /\ rollback_hooks = {}
    /\ cancel_requested = FALSE
    /\ execution_id = ""
    /\ exc = "none"
    /\ outcome = "pending"
    /\ result = <<>>
    /\ rollback_log = <<>>
    /\ hook_log = <<>>

\* The state of an execute_flow task that is not the one running: its locals
\* and its position.  "absent": the event loop has no second task.
NoTask ==
    [ flow |-> [nodes |-> <<>>, edges |-> <<>>], pc |-> "absent", plan |-> NoPlan,
      idx |-> 0, completed_steps |-> 0, errors |-> <<>>, rollbacks_performed |-> 0,
      cancel_requested |-> FALSE, execution_id |-> "", exc |-> "none",
      outcome |-> "pending", result |-> <<>>, rollback_log |-> <<>>, hook_log |-> <<>> ]

\* a task created for execute_flow(flow_data) that has not run yet
NewTask(flow_data) == [NoTask EXCEPT !.flow = flow_data, !.pc = "start"]

\* the running task, as the event loop keeps it while another task runs
ThisTask ==
    [ flow |-> flow, pc |-> pc, plan |-> plan, idx |-> idx,
      completed_steps |-> completed_steps, errors |-> errors,
      rollbacks_performed |-> rollbacks_performed, cancel_requested |-> cancel_requested,
      execution_id |-> execution_id, exc |-> exc, outcome |-> outcome, result |-> result,
      rollback_log |-> rollback_log, hook_log |-> hook_log ]

\* the uuid4 values the other task holds
Issued ==
    {peer.execution_id, peer.plan.plan_id} \cup {peer.plan.steps[i].step_id : i \in DOMAIN peer.plan.steps}

\* execute_flow is called with a flow of up to MaxNodes nodes
Init ==
    \E n \in 0..MaxNodes : \E ks \in [1..n -> NodeKinds] : \E es \in EngineEdges(n) :
        Start(Flow(ks, es)) /\ peer = NoTask

\* create_plan is called with a flow of up to PlanMaxNodes nodes
InitPlan ==
    \E n \in 1..PlanMaxNodes : \E ks \in [1..n -> PlanKinds] : \E es \in PlanEdges(n) :
        Start(Flow(ks, es)) /\ peer = NoTask

\* create_plan, and with it _estimate_resources, is called with a flow of up to
\* EstimateSteps nodes
InitEstimate ==
    \E n \in 0..EstimateSteps : \E ks \in [1..n -> EstimateKinds] :
        Start(Flow(ks, <<>>)) /\ peer = NoTask

\* two tasks are created on one engine, each for execute_flow on a flow of up to
\* ConcNodes nodes
InitConc ==
    \E n \in 0..ConcNodes : \E ks \in [1..n -> ConcKinds] :
    \E m \in 0..ConcNodes : \E js \in [1..m -> ConcKinds] :
        Start(Flow(ks, <<>>)) /\ peer = NewTask(Flow(js, <<>>))

\* ------------------------------------------------------------- step dispatch
\* What awaiting a handler does: it returns an output, raises, or suspends.
Return(out) == [kind |-> "return", output |-> out, error |-> "none"]
Raise(e) == [kind |-> "raise", output |-> "none", error |-> e]
Await == [kind |-> "await", output |-> "none", error |-> "none"]

\* The attributes AgentExecutor.__init__ sets; no other code sets one.
ExecutorAttributes == {"active_executions", "rollback_hooks"}

\* ExecutionContext is imported from app.core.security, which does not define
\* it; the context of the external interfaces carries api_base and access_token
\* and the engine reads them with context.get.
ContextSupportsGet == TRUE

execute_llm_step(step) == {Return("llm_response")}

execute_trigger_agent(step) ==
    IF ~step.input_data.agent_id THEN {Raise("ValueError")}
    ELSE IF ~ContextSupportsGet THEN {Raise("AttributeError")}
    ELSE {Await}

\* Lines 347-373 need self.security_guard, which the executor does not have; what
\* follows that attribute is given by the outcomes it could have had.
execute_tool_step(step) ==
    IF ~step.input_data.present THEN {Raise("AttributeError")}
    ELSE IF step.input_data.tool = "trigger_agent" THEN execute_trigger_agent(step)
    ELSE IF step.input_data.tool = "" THEN {Raise("ValueError")}
    ELSE IF "security_guard" \notin ExecutorAttributes THEN {Raise("AttributeError")}
    ELSE {Raise("SecurityError"), Raise("TypeError")}

execute_condition_step(step) ==
    IF ~step.input_data.present THEN {Raise("AttributeError")}
    ELSE {Return("condition_result")}

execute_step(step) ==
    IF step.node_type = "llm" THEN execute_llm_step(step)
    ELSE IF step.node_type = "tool" THEN execute_tool_step(step)
    ELSE IF step.node_type = "condition" THEN execute_condition_step(step)
    ELSE {Return("skipped")}

check_dependencies(step, dependencies, completed) ==
    IF step.step_id \notin DOMAIN dependencies THEN TRUE
    ELSE completed >= Len(dependencies[step.step_id])

\* variant: no step is critical
is_critical_step_never(step) == FALSE
is_critical_step(step) == step.node_type \in {"tool", "llm"}

\* RollbackHook.execute with the one compensation the engine registers,
\* _rollback_tool_action, which returns True.
hook_execute(step_id) == TRUE

\* _rollback_step: [called |-> a hook was invoked, success |-> its return value]
rollback_step(step, hooks) ==
    IF step.step_id \in hooks
    THEN [called |-> TRUE, success |-> hook_execute(step.step_id)]
    ELSE [called |-> FALSE, success |-> FALSE]

\* _rollback_execution: the positions it hands to _rollback_step, in its order
RECURSIVE rollback_order_from(_, _)
rollback_order_from(steps, i) ==
    IF i = 0 THEN <<>>
    ELSE IF steps[i].status = "completed"
         THEN <<i>> \o rollback_order_from(steps, i - 1)
         ELSE rollback_order_from(steps, i - 1)

\* variant: the except clause re-raises without the rollback pass
rollback_execution_skipped(steps) == <<>>

rollback_execution(steps) == rollback_order_from(steps, Len(steps))

collect_outputs(steps) ==
    LET done == {i \in DOMAIN steps :
                    steps[i].status = "completed" /\ steps[i].output_data # "none"}
    IN [n \in {steps[i].node_id : i \in done} |->
          steps[CHOOSE i \in done : steps[i].node_id = n
                    /\ \A j \in done : steps[j].node_id = n => j <= i].output_data]

\* The names bound in the scope of _execute_steps when line 294 runs: its
\* parameters and the locals it assigns.  start_time is a local of execute_plan.
ExecuteStepsNames ==
    { "self", "plan", "context", "execution_id", "completed_steps", "total_steps",
      "errors", "rollbacks_performed", "execution_context", "step", "output",
      "rollback_success", "e" }

ExecutionResult ==
    [ execution_id |-> execution_id,
      plan_id |-> plan.plan_id,
      status |-> IF completed_steps = Len(plan.steps) THEN "completed" ELSE "failed",
      steps_completed |-> completed_steps,
      total_steps |-> Len(plan.steps),
      output |-> collect_outputs(plan.steps),
      rollbacks_performed |-> rollbacks_performed,
      errors |-> errors ]

\* status updates of the step loop (lines 261, 265-266, 277-278)
StepExecuting(step) == [step EXCEPT !.status = "executing"]
\* variant: the output is stored and the status is left as it was
StepCompletedStillExecuting(step, out) == [step EXCEPT !.output_data = out]
StepCompleted(step, out) == [step EXCEPT !.output_data = out, !.status = "completed"]
\* variant: the failure handler marks the step as being rolled back
StepFailedRollingBack(step, err) == [step EXCEPT !.status = "rolling_back", !.error = err]
StepFailed(step, err) == [step EXCEPT !.status = "failed", !.error = err]

\* variant: no cleanup
DeregisterNever(active, id) == active
\* variant: the registry is emptied
DeregisterAll(active, id) == {}
\* the finally clause of execute_plan
Deregister(active, id) == active \ {id}

\* ------------------------------------------------------------- execute_flow
CurrentStep == plan.steps[idx]

\* "continue", or the end of the for loop
AdvanceLoop ==
    /\ idx' = idx + 1
    /\ pc' = IF idx + 1 > Len(plan.steps) THEN "assemble" ELSE "loop"

\* "break"
BreakLoop ==
    /\ idx' = idx
    /\ pc' = "assemble"

\* variant: the step is completed and the counter is left as it was
CompleteStepUncounted(out) ==
    /\ plan' = [plan EXCEPT !.steps[idx] = StepCompleted(@, out)]
    /\ IF execution_id \notin active_executions THEN BreakLoop ELSE AdvanceLoop
    /\ UNCHANGED << peer, execution_id, flow, completed_steps, errors, rollbacks_performed,
                    active_executions, rollback_hooks, cancel_requested, exc, outcome,
                    result, rollback_log, hook_log >>

\* lines 265-274: the awaited handler returned out
CompleteStep(out) ==
    /\ plan' = [plan EXCEPT !.steps[idx] = StepCompleted(@, out)]
    /\ completed_steps' = completed_steps + 1
    /\ IF execution_id \notin active_executions THEN BreakLoop ELSE AdvanceLoop
    /\ UNCHANGED << peer, execution_id, flow, errors, rollbacks_performed, active_executions, rollback_hooks,
                    cancel_requested, exc, outcome, result, rollback_log, hook_log >>

\* lines 276-292: the awaited handler raised err
FailStep(err) ==
    LET step == CurrentStep
        point == step.step_id \in Range(plan.rollback_points)
        rb == rollback_step(step, rollback_hooks)
    IN /\ plan' = [plan EXCEPT !.steps[idx] = StepFailed(@, err)]
       /\ errors' = Append(errors, [step_id |-> step.step_id, message |-> err])
       /\ rollback_log' = IF point THEN Append(rollback_log, idx) ELSE rollback_log
       /\ hook_log' = IF point /\ rb.called THEN Append(hook_log, idx) ELSE hook_log
       /\ rollbacks_performed' =
            IF point /\ rb.success THEN rollbacks_performed + 1 ELSE rollbacks_performed
       /\ IF is_critical_step(step) THEN BreakLoop ELSE AdvanceLoop
       /\ UNCHANGED << peer, execution_id, flow, completed_steps, active_executions, rollback_hooks,
                       cancel_requested, exc, outcome, result >>

\* execute_flow, line 515, when create_plan raises: the error goes to the caller
ExecuteFlowPlanningError ==
    /\ pc = "start"
    /\ PlanningFails(flow)
    /\ pc' = "done"
    /\ outcome' = "ValueError"
    /\ UNCHANGED << peer, execution_id, flow, plan, idx, completed_steps, errors, rollbacks_performed,
                    active_executions, rollback_hooks, cancel_requested, exc, result,
                    rollback_log, hook_log >>

\* execute_flow, line 515: create_plan returns the plan
ExecuteFlowCreatePlan ==
    /\ pc = "start"
    /\ ~PlanningFails(flow)
    /\ plan' = create_plan(flow, Issued)
    /\ pc' = "planned"
    /\ UNCHANGED << peer, execution_id, flow, idx, completed_steps, errors, rollbacks_performed,
                    active_executions, rollback_hooks, cancel_requested, exc, outcome,
                    result, rollback_log, hook_log >>

\* execute_plan, lines 212-220, and the head of _execute_steps, lines 240-251
ExecutePlanRegister ==
    /\ pc = "planned"
    /\ execution_id' = uuid4(ExecutionIds, Issued, 1)
    /\ active_executions' = active_executions \cup {execution_id'}
    /\ completed_steps' = 0
    /\ errors' = <<>>
    /\ rollbacks_performed' = 0
    /\ idx' = 1
    /\ pc' = IF Len(plan.steps) = 0 THEN "assemble" ELSE "loop"
    /\ UNCHANGED << peer, flow, plan, rollback_hooks, cancel_requested, exc, outcome, result,
                    rollback_log, hook_log >>

\* lines 255-262: the dependency check, then the step is marked EXECUTING
StepBegin ==
    /\ pc = "loop"
    /\ IF ~check_dependencies(CurrentStep, plan.dependencies, completed_steps)
       THEN AdvanceLoop /\ plan' = plan
       ELSE /\ plan' = [plan EXCEPT !.steps[idx] = StepExecuting(@)]
            /\ pc' = "dispatch"
            /\ idx' = idx
    /\ UNCHANGED << peer, execution_id, flow, completed_steps, errors, rollbacks_performed, active_executions,
                    rollback_hooks, cancel_requested, exc, outcome, result, rollback_log,
                    hook_log >>

\* line 264, the handler returns without suspending
StepReturns ==
    /\ pc = "dispatch"
    /\ \E r \in execute_step(CurrentStep) :
          /\ r.kind = "return"
          /\ CompleteStep(r.output)

\* line 264, the handler raises
StepRaises ==
    /\ pc = "dispatch"
    /\ \E r \in execute_step(CurrentStep) :
          /\ r.kind = "raise"
          /\ FailStep(r.error)

\* variant: the call is started in the background and the loop goes on
StepAwaitsHttpDetached ==
    /\ pc = "dispatch"
    /\ \E r \in execute_step(CurrentStep) : r.kind = "await"
    /\ AdvanceLoop
    /\ UNCHANGED << peer, execution_id, flow, plan, completed_steps, errors,
                    rollbacks_performed, active_executions, rollback_hooks,
                    cancel_requested, exc, outcome, result, rollback_log, hook_log >>

\* line 401: trigger_agent posts to /api/v1/agents/run and the task suspends
StepAwaitsHttp ==
    /\ pc = "dispatch"
    /\ \E r \in execute_step(CurrentStep) : r.kind = "await"
    /\ pc' = "http"
    /\ UNCHANGED << peer, execution_id, flow, plan, idx, completed_steps, errors, rollbacks_performed,
                    active_executions, rollback_hooks, cancel_requested, exc, outcome,
                    result, rollback_log, hook_log >>

\* lines 416-435: the response arrives; 200 gives a success result, anything
\* else an error-shaped result
HttpResponse ==
    /\ pc = "http"
    /\ ~cancel_requested
    /\ \E status_code \in {200, 500} :
          CompleteStep(IF status_code = 200 THEN "trigger_success"
                       ELSE "trigger_error_status")

\* lines 437-445: the post raises (network failure, timeout)
HttpException ==
    /\ pc = "http"
    /\ ~cancel_requested
    /\ CompleteStep("trigger_error_exception")

\* interrupt_flow -> interrupt_execution, run by other code while the task is
\* suspended: task.cancel()
InterruptFlow ==
    /\ pc = "http"
    /\ execution_id \in active_executions
    /\ ~cancel_requested
    /\ cancel_requested' = TRUE
    /\ UNCHANGED << peer, execution_id, flow, pc, plan, idx, completed_steps, errors, rollbacks_performed,
                    active_executions, rollback_hooks, exc, outcome, result, rollback_log,
                    hook_log >>

\* The cancelled task resumes with CancelledError thrown at its await; neither
\* "except Exception" (line 437, line 276) catches it, line 224 does.
CancelDelivered ==
    /\ pc = "http"
    /\ cancel_requested
    /\ exc' = "CancelledError"
    /\ pc' = "except"
    /\ UNCHANGED << peer, execution_id, flow, plan, idx, completed_steps, errors, rollbacks_performed,
                    active_executions, rollback_hooks, cancel_requested, outcome, result,
                    rollback_log, hook_log >>

\* lines 294-306: execution_time needs start_time; the result is built and
\* returned if that name is bound, else NameError goes to line 228
AssembleResult ==
    /\ pc = "assemble"
    /\ IF "start_time" \in ExecuteStepsNames
       THEN /\ result' = <<ExecutionResult>>
            /\ pc' = "finally"
            /\ exc' = exc
       ELSE /\ exc' = "NameError"
            /\ pc' = "except"
            /\ result' = result
    /\ UNCHANGED << peer, execution_id, flow, plan, idx, completed_steps, errors, rollbacks_performed,
                    active_executions, rollback_hooks, cancel_requested, outcome,
                    rollback_log, hook_log >>

\* lines 224-231: either except clause awaits _rollback_execution, then re-raises
ExceptRollback ==
    /\ pc = "except"
    /\ LET order == rollback_execution(plan.steps)
           hooked == SelectSeq(order,
                        LAMBDA i : rollback_step(plan.steps[i], rollback_hooks).called)
       IN /\ rollback_log' = rollback_log \o order
          /\ hook_log' = hook_log \o hooked
    /\ pc' = "finally"
    /\ UNCHANGED << peer, execution_id, flow, plan, idx, completed_steps, errors, rollbacks_performed,
                    active_executions, rollback_hooks, cancel_requested, exc, outcome,
                    result >>

\* lines 232-235, then execute_flow hands the result or the exception on
FinallyCleanup ==
    /\ pc = "finally"
    /\ active_executions' = Deregister(active_executions, execution_id)
    /\ outcome' = IF exc = "none" THEN "returned" ELSE exc
    /\ pc' = "done"
    /\ UNCHANGED << peer, execution_id, flow, plan, idx, completed_steps, errors, rollbacks_performed,
                    rollback_hooks, cancel_requested, exc, result, rollback_log, hook_log >>

\* Only one task of the event loop runs at a time, and the running task gives way
\* only where it suspends (line 401), before its first step or after its end:
\* the other task is resumed with its own locals.
TaskSwitch ==
    /\ peer.pc # "absent"
    /\ pc \in {"start", "http", "done"}
    /\ peer' = ThisTask
    /\ flow' = peer.flow
    /\ pc' = peer.pc
    /\ plan' = peer.plan
    /\ idx' = peer.idx
    /\ completed_steps' = peer.completed_steps
    /\ errors' = peer.errors
    /\ rollbacks_performed' = peer.rollbacks_performed
    /\ cancel_requested' = peer.cancel_requested
    /\ execution_id' = peer.execution_id
    /\ exc' = peer.exc
    /\ outcome' = peer.outcome
    /\ result' = peer.result
    /\ rollback_log' = peer.rollback_log
    /\ hook_log' = peer.hook_log
    /\ UNCHANGED << active_executions, rollback_hooks >>

\* create_plan has returned and is called once more on the same planner, with the
\* same flow_data; the plan it returned the first time is kept
CreatePlanAgain ==
    /\ pc = "planned"
    /\ peer.pc = "absent"
    /\ peer' = ThisTask
    /\ pc' = "start"
    /\ plan' = NoPlan
    /\ UNCHANGED << flow, idx, completed_steps, errors, rollbacks_performed,
                    active_executions, rollback_hooks, cancel_requested, execution_id,
                    exc, outcome, result, rollback_log, hook_log >>

Next ==
    \/ ExecuteFlowPlanningError
    \/ ExecuteFlowCreatePlan
    \/ ExecutePlanRegister
    \/ StepBegin
    \/ StepReturns
    \/ StepRaises
    \/ StepAwaitsHttp
    \/ HttpResponse
    \/ HttpException
    \/ InterruptFlow
    \/ CancelDelivered
    \/ AssembleResult
    \/ ExceptRollback
    \/ FinallyCleanup

Spec == Init /\ [][Next]_vars

\* The planner on its own, over flows with arbitrary edge lists.
NextPlan ==
    \/ ExecuteFlowPlanningError
    \/ ExecuteFlowCreatePlan
    \/ CreatePlanAgain

SpecPlan == InitPlan /\ [][NextPlan]_vars

\* The planner with its resource estimator, over longer plans.
NextEstimate == ExecuteFlowCreatePlan

SpecEstimate == InitEstimate /\ [][NextEstimate]_vars

\* Two executions on one engine.
NextConc ==
    \/ Next
    \/ TaskSwitch

SpecConc == InitConc /\ [][NextConc]_vars

\* One execution whose task the event loop keeps running: a cancelled task is
\* resumed, and the clauses of execute_plan run to their end.
SpecLive ==
    /\ Init
    /\ [][Next]_vars
    /\ WF_vars(CancelDelivered)
    /\ WF_vars(ExceptRollback)
    /\ WF_vars(FinallyCleanup)

\* ------------------------------------------------------------- properties
StepsOf(status) == {i \in DOMAIN plan.steps : plan.steps[i].status = status}
Executed == pc = "done" /\ outcome # "ValueError"
Returned == outcome = "returned" /\ Len(result) = 1

\* C1: when every step's dispatch succeeded, execute_flow returns a result with
\* status COMPLETED, steps_completed = total_steps, no error and no rollback; it
\* does not end by raising.
C1_ReturnsCompleted ==
    (Executed /\ plan.steps # <<>> /\ StepsOf("completed") = DOMAIN plan.steps)
        => /\ Returned
           /\ result[1].status = "completed"
           /\ result[1].steps_completed = result[1].total_steps
           /\ result[1].errors = <<>>
           /\ result[1].rollbacks_performed = 0

\* The flow entry -> tool (operation "database_update") -> exit.
C2_Flow ==
    /\ Len(flow.nodes) = 3
    /\ flow.nodes[1].type = "entry"
    /\ flow.nodes[2].type = "tool"
    /\ flow.nodes[2].data.operation = <<"database", "update">>
    /\ flow.nodes[3].type = "exit"
    /\ flow.edges = ChainEdges(3)

\* C2: for entry -> tool (rollback point) -> exit whose tool step raises,
\* execute_flow returns a result with status FAILED, rollbacks_performed = 1 and
\* exactly one error, which names the tool step.
C2_FailedWithOneRollback ==
    (Executed /\ C2_Flow /\ plan.steps[2].status = "failed")
        => /\ Returned
           /\ result[1].status = "failed"
           /\ result[1].rollbacks_performed = 1
           /\ Len(result[1].errors) = 1
           /\ result[1].errors[1].step_id = plan.steps[2].step_id

\* C3: every result has status COMPLETED iff steps_completed = total_steps and
\* FAILED otherwise, and an execution that left a step unstarted (still
\* PLANNING) yields a result with status FAILED.
C3_StatusIffAllCompleted ==
    /\ Len(result) = 1 =>
          /\ result[1].status = "completed" <=>
                result[1].steps_completed = result[1].total_steps
          /\ result[1].status \in {"completed", "failed"}
    /\ (Executed /\ exc # "CancelledError" /\ StepsOf("planning") # {})
          => Returned /\ result[1].status = "failed"

Forward(a, b) ==
    \/ a = b
    \/ a = "planning" /\ b = "executing"
    \/ a = "executing" /\ b \in {"completed", "failed"}

\* C4: a step's status only moves PLANNING -> EXECUTING -> {COMPLETED, FAILED};
\* it never goes back, and COMPLETED and FAILED are final, whatever the engine
\* does (failure, rollback, cancellation).
C4_StatusForward ==
    [][\A i \in DOMAIN plan.steps :
          /\ i \in DOMAIN plan'.steps
          /\ Forward(plan.steps[i].status, plan'.steps[i].status)]_vars

\* a failed rollback point whose rollback was tried, next to a completed step
C4_Witness ==
    /\ pc = "done"
    /\ \E i \in StepsOf("failed") : i \in Range(rollback_log)
    /\ StepsOf("completed") # {}

\* C6: once execute_plan has finished, by whatever outcome, its execution id is no
\* key of active_executions.
C6_Deregistered == pc = "done" => execution_id \notin active_executions

\* a cancelled execution that was registered and has finished
C6_Witness ==
    /\ pc = "done"
    /\ outcome = "CancelledError"
    /\ StepsOf("executing") # {}
    /\ execution_id \notin active_executions

\* C7: a cancellation (or an exception that escapes the step loop) becomes
\* visible to the caller only after the rollback pass has handed every COMPLETED
\* step to _rollback_step and invoked the hook of each one that has a hook; the
\* caller then gets that very exception.
C7_RollbackBeforeSurface ==
    /\ outcome \in {"CancelledError", "NameError"} =>
          \A i \in StepsOf("completed") :
              /\ i \in Range(rollback_log)
              /\ plan.steps[i].step_id \in rollback_hooks => i \in Range(hook_log)
    /\ (pc = "done" /\ exc # "none") => outcome = exc
    /\ cancel_requested /\ pc = "done" => outcome = "CancelledError"

\* a cancelled execution with a completed step, rolled back and re-raised
C7_Witness ==
    /\ outcome = "CancelledError"
    /\ cancel_requested
    /\ StepsOf("completed") # {}
    /\ \A i \in StepsOf("completed") : i \in Range(rollback_log)

\* C10: create_plan returns, for a flow of valid node types, one PLANNING step
\* per node in node order; every edge's target is a key of dependencies whose
\* list contains the edge's source, and a node without incoming edge is no key.
C10_PlanComplete ==
    /\ pc = "planned" =>
          /\ Len(plan.steps) = Len(flow.nodes)
          /\ \A i \in DOMAIN flow.nodes :
                /\ plan.steps[i].node_id = flow.nodes[i].id
                /\ plan.steps[i].node_type = flow.nodes[i].type
                /\ plan.steps[i].status = "planning"
                /\ (\A k \in DOMAIN flow.edges : flow.edges[k].target # flow.nodes[i].id)
                      => flow.nodes[i].id \notin DOMAIN plan.dependencies
          /\ \A k \in DOMAIN flow.edges :
                /\ flow.edges[k].target \in DOMAIN plan.dependencies
                /\ flow.edges[k].source \in Range(plan.dependencies[flow.edges[k].target])
    /\ (\A i \in DOMAIN flow.nodes : flow.nodes[i].type \in NodeType) => pc # "done"

\* a plan with two different sources for one target and a node nothing points to
C10_Witness ==
    /\ pc = "planned"
    /\ \E t \in DOMAIN plan.dependencies :
          /\ Len(plan.dependencies[t]) = 2
          /\ plan.dependencies[t][1] # plan.dependencies[t][2]
    /\ \E i \in DOMAIN flow.nodes : flow.nodes[i].id \notin DOMAIN plan.dependencies

PlanStepIds(p) == {p.steps[i].step_id : i \in DOMAIN p.steps}

\* C11: in every plan create_plan returns, each key of dependencies, each entry
\* of a dependency list and each entry of rollback_points is the step_id of a
\* step of the plan.
C11_IdsAreStepIds ==
    pc = "planned" =>
        /\ \A t \in DOMAIN plan.dependencies :
              /\ t \in PlanStepIds(plan)
              /\ \A k \in DOMAIN plan.dependencies[t] :
                    plan.dependencies[t][k] \in PlanStepIds(plan)
        /\ \A k \in DOMAIN plan.rollback_points :
              plan.rollback_points[k] \in PlanStepIds(plan)

\* C12: a step is a rollback point iff its node type is tool, llm or parallel and
\* its operation contains file_write, database_update, api_call or payment; a
\* condition node, or a node of any other type, never is one, and a tool node with
\* operation s3_file_write_backup always is.
C12_RollbackPointRule ==
    pc = "planned" =>
        \A i \in DOMAIN plan.steps :
            LET node == flow.nodes[i]
                marked == plan.steps[i].step_id \in Range(plan.rollback_points)
                operation == node.data.operation
            IN /\ marked <=>
                    /\ node.type \in {"tool", "llm", "parallel"}
                    /\ \/ Contains(operation, <<"file", "write">>)
                       \/ Contains(operation, <<"database", "update">>)
                       \/ Contains(operation, <<"api", "call">>)
                       \/ Contains(operation, <<"payment">>)
               /\ node.type \notin {"tool", "llm", "parallel"} => ~marked
               /\ (node.type = "tool" /\ operation = <<"s3", "file", "write", "backup">>)
                     => marked

\* a plan with a marked s3_file_write_backup tool step and an unmarked condition
\* step whose operation is payment
C12_Witness ==
    /\ pc = "planned"
    /\ \E i \in DOMAIN plan.steps :
          /\ flow.nodes[i].type = "tool"
          /\ flow.nodes[i].data.operation = <<"s3", "file", "write", "backup">>
          /\ plan.steps[i].step_id \in Range(plan.rollback_points)
    /\ \E i \in DOMAIN plan.steps :
          /\ flow.nodes[i].type = "condition"
          /\ flow.nodes[i].data.operation = <<"payment">>
          /\ plan.steps[i].step_id \notin Range(plan.rollback_points)

\* the positions of the steps a plan's rollback_points name, in their order
RollbackPositions(p) ==
    [k \in DOMAIN p.rollback_points |->
        CHOOSE i \in DOMAIN p.steps : p.steps[i].step_id = p.rollback_points[k]]

UnknownTypes(flow_data) ==
    {i \in DOMAIN flow_data.nodes : flow_data.nodes[i].type \notin NodeType}

\* C14: for a flow with a node of a type the engine does not know (custom_widget),
\* execute_flow ends with a returned result of status COMPLETED or FAILED, the
\* node's step carries the output "skipped" and no error names it; it does not end
\* with an exception.
C14_UnknownTypeSkipped ==
    (pc = "done" /\ UnknownTypes(flow) # {}) =>
        /\ Returned
        /\ result[1].status \in {"completed", "failed"}
        /\ \A i \in UnknownTypes(flow) :
              /\ i \in DOMAIN plan.steps
              /\ plan.steps[i].output_data = "skipped"
              /\ \A k \in DOMAIN errors : errors[k].step_id # plan.steps[i].step_id

\* C15: when a node of the flow has a type that is no NodeType, create_plan raises
\* and returns no plan, and execute_flow hands that error to its caller: no
\* execution was registered, no step exists or ran, and no rollback was tried.
C15_PlanningErrorSurfaces ==
    /\ UnknownTypes(flow) # {} =>
          /\ pc \in {"start", "done"}
          /\ plan = NoPlan
          /\ execution_id = ""
          /\ active_executions = {}
          /\ errors = <<>> /\ completed_steps = 0
          /\ rollback_log = <<>> /\ hook_log = <<>>
          /\ pc = "done" => (outcome = "ValueError" /\ result = <<>>)
    /\ outcome = "ValueError" => PlanningFails(flow)

\* the planning error has reached the caller for a flow whose first node is a
\* valid tool node and whose second node has an unknown type
C15_Witness ==
    /\ pc = "done"
    /\ outcome = "ValueError"
    /\ Len(flow.nodes) >= 2
    /\ flow.nodes[1].type = "tool"
    /\ 2 \in UnknownTypes(flow)

TriggerAgentSteps ==
    {i \in DOMAIN plan.steps :
        /\ plan.steps[i].node_type = "tool"
        /\ plan.steps[i].input_data.present
        /\ plan.steps[i].input_data.tool = "trigger_agent"}

\* C16: the dispatch of a tool step whose tool is trigger_agent never raises,
\* whatever the step's input and the outcome of the call: the step does not end
\* FAILED, and once dispatched it carries a success result (HTTP 200) or an
\* error-shaped result.
C16_TriggerAgentNeverRaises ==
    \A i \in TriggerAgentSteps :
        /\ plan.steps[i].status # "failed"
        /\ \A k \in DOMAIN errors : errors[k].step_id # plan.steps[i].step_id
        /\ plan.steps[i].status = "completed" =>
              plan.steps[i].output_data \in
                  {"trigger_success", "trigger_error_status", "trigger_error_exception"}

\* C17: no exception but the planning error leaves execute_flow, and that one
\* leaves before anything was changed; with a plan, an execution that is not
\* cancelled and in which a step failed ends with a returned result whose errors
\* hold an entry for every failed step.
C17_OnlyPlanningErrorEscapes ==
    (pc = "done" /\ ~cancel_requested /\ (plan = NoPlan \/ StepsOf("failed") # {})) =>
        /\ outcome \in {"returned", "ValueError"}
        /\ outcome = "ValueError" =>
              (plan = NoPlan /\ execution_id = "" /\ active_executions = {})
        /\ outcome = "returned" =>
              /\ Len(result) = 1
              /\ \A i \in StepsOf("failed") :
                    \E k \in DOMAIN result[1].errors :
                        result[1].errors[k].step_id = plan.steps[i].step_id

\* C18: once interrupt_flow has cancelled the task of a live execution, the
\* execution terminates and its id is removed from active_executions.
C18_InterruptTerminates ==
    (cancel_requested /\ execution_id \in active_executions)
        ~> (pc = "done" /\ execution_id \notin active_executions)

\* an execution interrupted while a completed step precedes the step in flight
C18_Witness ==
    /\ cancel_requested
    /\ pc = "http"
    /\ execution_id \in active_executions
    /\ StepsOf("completed") # {}

\* registered by line 217 and not yet through the finally clause
Live(p) == p \in {"loop", "dispatch", "http", "assemble", "except", "finally"}

\* C19: with two executions interleaved on one executor, each one's id is a key
\* of active_executions from its registration until its own termination, the two
\* ids and the step ids of the two plans differ, active_executions is empty once
\* both have terminated, and a step of one execution changes nothing of the other:
\* not its registration, not its cancellation state, not its plan's steps.
C19_ExecutionsIsolated ==
    /\ [](/\ Live(pc) => execution_id \in active_executions
          /\ Live(peer.pc) => peer.execution_id \in active_executions
          /\ (Live(pc) /\ Live(peer.pc)) => execution_id # peer.execution_id
          /\ PlanStepIds(plan) \cap PlanStepIds(peer.plan) = {}
          /\ (pc = "done" /\ peer.pc = "done") => active_executions = {})
    /\ [][\/ peer' = peer /\ (peer.execution_id \in active_executions
                                 <=> peer.execution_id \in active_executions')
          \/ peer' = ThisTask /\ active_executions' = active_executions]_vars

\* one execution was interrupted after a completed step and has terminated
\* while the other, registered before that, is still suspended in its step
C19_Witness ==
    /\ pc = "done"
    /\ outcome = "CancelledError"
    /\ StepsOf("completed") # {}
    /\ peer.pc = "http"
    /\ peer.execution_id \in active_executions
    /\ ~peer.cancel_requested

ErrorsOf(i) == {k \in DOMAIN errors : errors[k].step_id = plan.steps[i].step_id}

\* C20: a step whose dispatch raised is FAILED, carries the error, and has exactly
\* one entry in errors, errors holding nothing else; after a failed tool or llm
\* step every later step of the plan is still PLANNING, and after a failed step of
\* another type the loop goes on to the next step of the plan.
C20_FailureSemantics ==
    /\ Len(errors) = Cardinality(StepsOf("failed"))
    /\ \A i \in DOMAIN plan.steps :
          plan.steps[i].status # "failed" => (ErrorsOf(i) = {} /\ plan.steps[i].error = "none")
    /\ \A i \in StepsOf("failed") :
          /\ plan.steps[i].error # "none"
          /\ Cardinality(ErrorsOf(i)) = 1
          /\ \A k \in ErrorsOf(i) : errors[k].message = plan.steps[i].error
          /\ plan.steps[i].node_type \in {"tool", "llm"} =>
                /\ \A j \in DOMAIN plan.steps : j > i => plan.steps[j].status = "planning"
                /\ idx = i
                /\ pc \notin {"loop", "dispatch", "http"}
          /\ (plan.steps[i].node_type \notin {"tool", "llm"} /\ i < Len(plan.steps)) =>
                \/ idx = i + 1 /\ pc = "loop"
                \/ plan.steps[i + 1].status # "planning"

\* a failed condition step after which the loop went on to a tool step, which
\* failed too and is followed by a step that never started
C20_Witness ==
    /\ pc = "done"
    /\ \E i \in StepsOf("failed") :
          /\ plan.steps[i].node_type = "condition"
          /\ i + 1 \in StepsOf("failed")
          /\ plan.steps[i + 1].node_type = "tool"
          /\ i + 2 \in StepsOf("planning")
    /\ Len(errors) = 2

DeclaredDependencies(j) ==
    Cardinality({k \in DOMAIN flow.edges : flow.edges[k].target = plan.steps[j].node_id})

\* C22: a step whose node has d incoming edges is started only when at least d
\* steps of the execution have completed; with fewer it is not started.
C22_DependencyCount ==
    pc = "dispatch" => completed_steps >= DeclaredDependencies(idx)

\* C24: when the execution is cancelled while a step is EXECUTING, that step
\* becomes INTERRUPTED; a step becomes INTERRUPTED from EXECUTING only, and only
\* in a cancelled execution.
C24_CancelledStepInterrupted ==
    /\ (pc = "done" /\ outcome = "CancelledError") =>
          (idx \in DOMAIN plan.steps /\ plan.steps[idx].status = "interrupted")
    /\ StepsOf("interrupted") # {} => cancel_requested

\* C25: a cancellation that arrives while a step is in flight does not cut the
\* step short: the step ends COMPLETED or FAILED first, and when the cancellation
\* reaches the caller no step of the plan is EXECUTING.
C25_CancelNotPreempting ==
    /\ outcome = "CancelledError" => StepsOf("executing") = {}
    /\ (pc \in {"except", "finally", "done"} /\ exc = "CancelledError") =>
          \A i \in DOMAIN plan.steps :
              i <= idx => plan.steps[i].status \in {"completed", "failed", "planning"}

\* C26: at most one step of the plan is EXECUTING in any state, whatever the
\* plan's max_concurrent_steps is.
C26_OneStepExecuting == Cardinality(StepsOf("executing")) <= 1

\* a step in flight in a plan whose estimate allows three concurrent steps, after
\* two steps that have ended
C26_Witness ==
    /\ pc = "http"
    /\ plan.resource_requirements.max_concurrent_steps = 3
    /\ Cardinality(StepsOf("executing")) = 1
    /\ Cardinality(StepsOf("completed")) = 2

NodesOfType(type) == {i \in DOMAIN flow.nodes : flow.nodes[i].type = type}

\* C27: for a plan with L llm steps, T tool steps and N steps the estimate is
\* cpu = 30 L + 10 T, memory = 512 L + 256 T, disk = 50 T and max_concurrent_steps
\* = min(5, N); steps of other types add nothing and every step is as it was
\* created.
C27_ResourceEstimate ==
    pc = "planned" =>
        LET L == Cardinality(NodesOfType("llm"))
            T == Cardinality(NodesOfType("tool"))
            N == Len(flow.nodes)
            r == plan.resource_requirements
        IN /\ r.estimated_cpu_time = 30 * L + 10 * T
           /\ r.estimated_memory_mb = 512 * L + 256 * T
           /\ r.estimated_disk_mb = 50 * T
           /\ r.max_concurrent_steps = IF N < 5 THEN N ELSE 5
           /\ N = 0 => r.max_concurrent_steps = 0
           /\ DOMAIN r = {"estimated_cpu_time", "estimated_memory_mb",
                          "estimated_disk_mb", "max_concurrent_steps"}
           /\ Len(plan.steps) = N
           /\ \A i \in DOMAIN plan.steps :
                 plan.steps[i] = ExecutionStep(plan.steps[i].step_id, flow.nodes[i])

\* a plan of six steps, llm, tool and entry steps among them, capped at five
C27_Witness ==
    /\ pc = "planned"
    /\ Len(plan.steps) = 6
    /\ Cardinality(NodesOfType("llm")) = 2
    /\ Cardinality(NodesOfType("tool")) = 3
    /\ plan.resource_requirements.max_concurrent_steps = 5
    /\ plan.resource_requirements.estimated_cpu_time = 90

\* C29: in every state of an execution the completed-step counter is the number
\* of COMPLETED steps, errors has one entry per FAILED step, the two together do
\* not exceed the number of steps, and rollbacks_performed does not exceed the
\* number of errors.
C29_CountersAgree ==
    /\ completed_steps = Cardinality(StepsOf("completed"))
    /\ Len(errors) = Cardinality(StepsOf("failed"))
    /\ completed_steps + Len(errors) <= Len(plan.steps)
    /\ rollbacks_performed <= Len(errors)

\* an execution with a completed step, a failed rollback point, and a step that
\* was never started
C29_Witness ==
    /\ pc = "done"
    /\ completed_steps = 1
    /\ Len(errors) = 1
    /\ \E i \in StepsOf("failed") : plan.steps[i].step_id \in Range(plan.rollback_points)
    /\ StepsOf("planning") # {}

TriggerErrorOutputs == {"trigger_error_status", "trigger_error_exception"}

\* C30: when a trigger_agent call comes back as an error (a response other than
\* 200, or a failure of the call), its step is COMPLETED and counted, no error
\* is recorded for it, the loop goes on to the later steps, and the returned
\* result holds the error-shaped output under the step's node id.
C30_TriggerErrorCompleted ==
    \A i \in DOMAIN plan.steps :
        plan.steps[i].output_data \in TriggerErrorOutputs =>
            /\ plan.steps[i].status = "completed"
            /\ completed_steps >= 1
            /\ ErrorsOf(i) = {}
            /\ (i < Len(plan.steps) /\ pc = "done") => plan.steps[i + 1].status # "planning"
            /\ pc = "done" =>
                  /\ Returned
                  /\ plan.steps[i].node_id \in DOMAIN result[1].output
                  /\ result[1].output[plan.steps[i].node_id] = plan.steps[i].output_data
                  /\ result[1].steps_completed = completed_steps

====
